---- MODULE Spec2Model ----
(***************************************************************************)
(* Model of the browser-side catalogue / reservation front end.            *)
(*                                                                         *)
(* The core is createFetchWithRetry (src/infra/fetch-retry.ts, kept in     *)
(* src/unnamed/part_000): a decorator around a base fetch that retries     *)
(* transient failures with exponential backoff.  One call of the returned  *)
(* function is an async function; its steps are the code between two       *)
(* awaits:                                                                 *)
(*    Invoke        lines 52-72   up to the first  await boundFetch(...)   *)
(*    FetchResolve  lines 72-93   boundFetch resolved with a response      *)
(*    FetchReject   lines 94-111  boundFetch threw / rejected              *)
(*    DelayElapsed  lines 93/110, 70-72, 114  the timer fired, attempt++   *)
(* The base fetch and the onRetry callback are the environment: each base  *)
(* invocation returns any status or raises any value, each onRetry call    *)
(* returns or raises.                                                      *)
(***************************************************************************)
EXTENDS Integers, Sequences, FiniteSets, TLC

\* ------------------------------------------------------------------ bounds
\* Largest maxRetries the options are drawn from.
MaxRetriesBound == 4

\* Largest maxRetries of a wrapper instance that two calls use concurrently.
MaxConcurrentRetries == 1

\* Largest number of fetchDevices / fetchMyReservations calls in a behaviour.
MaxInvocations == 3

\* Largest number of addReservation / cancelReservation / upsertDevices calls
\* in a behaviour.
MaxMutationCalls == 2

\* Largest number of handler runs of the Devices view in a behaviour.
MaxPageTasks == 3

\* ------------------------------------------------------- program constants
\* DEFAULTS (part_000:37-44)
DefaultMaxRetries == 1
DefaultInitialDelayMs == 300
DefaultMaxDelayMs == 1500
DefaultBackoffMultiplier == 2
DefaultRetryOnStatus == {408, 429, 500, 502, 503, 504}

DEFAULTS ==
    [maxRetries        |-> DefaultMaxRetries,
     initialDelayMs    |-> DefaultInitialDelayMs,
     maxDelayMs        |-> DefaultMaxDelayMs,
     backoffMultiplier |-> DefaultBackoffMultiplier,
     retryOnStatus     |-> DefaultRetryOnStatus]

\* maxDelayMs that useDevices / useReservations pass (part_000:433)
DevicesMaxDelayMs == 1200

\* maxRetries that useDevices / useReservations pass (part_000:431)
DevicesMaxRetries == 1

\* ------------------------------------------------------------ environment
\* Statuses the base fetch may answer with: success, a client error and a
\* transient server error.
Statuses == {200, 404, 503}

\* retryOnStatus lists the options are drawn from: the default, and one
\* under which 404 is retried as well.
RetryOnStatusSets == {DefaultRetryOnStatus, {404, 503}}

\* Values the base fetch may raise: an Error instance and a non-Error value
\* (a thrown string).  text is the Error's message, or String(v) of a
\* non-Error v; id is the base invocation that raised the value (0: none),
\* so that values raised by different invocations are different objects.
NetworkError == [isError |-> TRUE, text |-> "Failed to fetch", origin |-> "base", id |-> 0]
ThrownString == [isError |-> FALSE, text |-> "NOPE", origin |-> "base", id |-> 0]
BaseFaults == {NetworkError, ThrownString}

\* The value a raising onRetry callback raises.
CallbackError == [isError |-> TRUE, text |-> "onRetry failed", origin |-> "onRetry", id |-> 0]

\* What one call of the onRetry callback does.
CallbackBehaviours == {"returns", "raises"}

\* let lastErr: Error | undefined  (part_000:68)
Undefined == [isError |-> FALSE, text |-> "undefined", origin |-> "none", id |-> 0]

\* The arguments (input, init) a caller passes.  method "" stands for an
\* init without method.
Requests ==
    {[kind |-> "string", url |-> "http://api/catalogue", method |-> ""],
     [kind |-> "URL", url |-> "http://api/reservations/r1", method |-> "delete"]}
NoRequest == [kind |-> "none", url |-> "", method |-> ""]

\* Backoff policies the options are drawn from (initialDelayMs, maxDelayMs,
\* backoffMultiplier): the defaults, the one useDevices passes, and one with
\* another multiplier.
DelayPolicies ==
    {[initialDelayMs |-> DefaultInitialDelayMs, maxDelayMs |-> DefaultMaxDelayMs,
      backoffMultiplier |-> DefaultBackoffMultiplier],
     [initialDelayMs |-> DefaultInitialDelayMs, maxDelayMs |-> DevicesMaxDelayMs,
      backoffMultiplier |-> DefaultBackoffMultiplier],
     [initialDelayMs |-> 100, maxDelayMs |-> 1000, backoffMultiplier |-> 3]}

\* const opts = { ...DEFAULTS, ...options }  (part_000:50)
MergeOptions(options) ==
    [f \in (DOMAIN DEFAULTS) \cup (DOMAIN options) |->
        IF f \in DOMAIN options THEN options[f] ELSE DEFAULTS[f]]

\* The options createFetchWithRetry is constructed with.
OptionSet ==
    { MergeOptions([maxRetries        |-> n,
                    initialDelayMs    |-> p.initialDelayMs,
                    maxDelayMs        |-> p.maxDelayMs,
                    backoffMultiplier |-> p.backoffMultiplier,
                    retryOnStatus     |-> rs,
                    onRetry           |-> cb]) :
        n \in 0..MaxRetriesBound, p \in DelayPolicies, rs \in RetryOnStatusSets,
        cb \in {"absent", "present"} }

VARIABLES
    opts,       \* the merged options of the wrapper instance
    request,    \* (input, init) of the call in progress
    pc,         \* "idle" | "fetch" | "delay" | "returned" | "thrown"
    attempt,    \* the loop counter
    lastErr,    \* let lastErr
    outcome,    \* what the call returned or raised
    calls,      \* history: the base invocations and what each produced
    retryLog,   \* history: the events onRetry was called with
    waited,     \* history: the durations passed to delay()
    trace       \* history: the order of the events <<tag, n>>: "fetch",
                \* "response", "fault" with the attempt index n; "onRetry",
                \* "delay", "elapsed" with the retry number n (attempt + 1)

VARIABLES
    fd,              \* the locals of the fetchDevices / fetchMyReservations
                     \* call that made the wrapper call in progress
    parked,          \* the frame (all of the above but opts) of a second
                     \* call, suspended at an await while the first one runs
    comp,            \* the refs of useDevices and of useReservations
    isAuthenticated, \* the ref of useAuth0
    invocations      \* history: the calls of fetchDevices / fetchMyReservations

VARIABLES
    ops,             \* useAddReservations, useCancelReservations and
                     \* useUpsertDevices: their refs and the calls made
    page             \* the Devices view: its handlers in progress and the
                     \* refs of the composables as the view sees them

vars == <<opts, request, pc, attempt, lastErr, outcome, calls, retryLog, waited, trace,
          fd, parked, comp, isAuthenticated, invocations, ops, page>>

\* What the retrying fetches leave untouched.
OthersIdle == UNCHANGED <<ops, page>>

\* What the wrapper alone leaves untouched.
Frozen == UNCHANGED <<fd, parked, comp, isAuthenticated, invocations>> /\ OthersIdle

\* ------------------------------------------------------------ pure helpers
RECURSIVE Pow(_, _)
Pow(b, e) == IF e = 0 THEN 1 ELSE b * Pow(b, e - 1)

Min(a, b) == IF a <= b THEN a ELSE b

\* calculateDelay with the exponent off by one.
calculateDelay_OffByOne(a, o) ==
    LET exp == o.initialDelayMs * Pow(o.backoffMultiplier, a + 1)
    IN  Min(exp, o.maxDelayMs)

\* calculateDelay (part_000:118-125)
calculateDelay(a, o) ==
    LET exp == o.initialDelayMs * Pow(o.backoffMultiplier, a)
    IN  Min(exp, o.maxDelayMs)

\* shouldRetry that ignores retryOnStatus and retries every response.
shouldRetry_Always(status, o) == TRUE

\* const shouldRetry = opts.retryOnStatus.includes(res.status)  (part_000:74)
shouldRetry(status, o) == status \in o.retryOnStatus

\* The final-attempt test one attempt late.
IsFinalAttempt_OneLate(a, o) == a = o.maxRetries + 1

\* attempt === opts.maxRetries  (part_000:80, 97)
IsFinalAttempt(a, o) == a = o.maxRetries

\* The catch block without the conversion: lastErr = e.
ToError_NoConversion(e) == e

\* e instanceof Error ? e : new Error(String(e))  (part_000:95)
ToError(e) ==
    IF e.isError THEN e
    ELSE [isError |-> TRUE, text |-> e.text, origin |-> "wrapper", id |-> 0]

\* const url = ...  (part_000:59-64): the string itself, URL.href, Request.url
UrlOf(req) == req.url

\* (init?.method || 'GET').toUpperCase()  (part_000:66)
UpperCase(m) ==
    CASE m = "delete" -> "DELETE"
      [] m = "get"    -> "GET"
      [] OTHER        -> m
MethodOf(req) == UpperCase(IF req.method = "" THEN "GET" ELSE req.method)

\* The arguments with the method normalised as for the onRetry event.
FetchArgs_Normalised(req) == [req EXCEPT !.method = MethodOf(req)]

\* boundFetch(input, init)  (part_000:72): the arguments of every attempt
\* are the ones the caller passed.
FetchArgs(req) == req

NoResponse == [id |-> 0, status |-> 0]
Returned(res) == [kind |-> "return", res |-> res, err |-> Undefined]
Raised(e) == [kind |-> "throw", res |-> NoResponse, err |-> e]
NoOutcome == [kind |-> "none", res |-> NoResponse, err |-> Undefined]

\* The event without its status: the try branch passes no status.
RetryEvent_StatusDropped(a, delayMs, status, errorMessage) ==
    [attempt      |-> a + 1,
     maxRetries   |-> opts.maxRetries,
     url          |-> UrlOf(request),
     method       |-> MethodOf(request),
     delayMs      |-> delayMs,
     status       |-> {},
     errorMessage |-> errorMessage]

\* The object passed to onRetry (part_000:84-91, 101-108).  An optional
\* field is a set with at most one element.
RetryEvent(a, delayMs, status, errorMessage) ==
    [attempt      |-> a + 1,
     maxRetries   |-> opts.maxRetries,
     url          |-> UrlOf(request),
     method       |-> MethodOf(request),
     delayMs      |-> delayMs,
     status       |-> status,
     errorMessage |-> errorMessage]

\* new Error('Fetch failed after retries')  (part_000:114)
FallbackError ==
    [isError |-> TRUE, text |-> "Fetch failed after retries", origin |-> "wrapper", id |-> 0]

\* ------------------------------------------------- the body of one call
\* The locals and histories a step reads and writes, as one record.
Cur ==
    [pc |-> pc, lastErr |-> lastErr, outcome |-> outcome,
     retryLog |-> retryLog, waited |-> waited, trace |-> trace]

\* opts.onRetry?.({...})  (part_000:84, 101): nothing when no callback is
\* configured; otherwise the callback runs and either returns or raises.
CallOnRetry(st, ev, cb) ==
    IF opts.onRetry = "absent"
    THEN [st |-> st, raised |-> FALSE]
    ELSE [st |-> [st EXCEPT !.retryLog = Append(@, ev),
                            !.trace = Append(@, <<"onRetry", ev.attempt>>)],
          raised |-> cb = "raises"]

\* delay() whose promise is never resolved (setTimeout without resolve): the
\* call stays suspended for ever.
StartDelay_TimerLost(st, delayMs) ==
    [st EXCEPT !.pc = "hung",
               !.waited = Append(@, delayMs),
               !.trace = Append(@, <<"delay", attempt + 1>>)]

\* delay(delayMs) without await: the loop goes on at once and issues the
\* next request while the timer runs.
StartDelay_NotAwaited(st, delayMs) ==
    [st EXCEPT !.pc = "fetch",
               !.waited = Append(@, delayMs),
               !.trace = Append(Append(@, <<"delay", attempt + 1>>),
                                <<"fetch", attempt + 1>>)]

\* await delay(delayMs)  (part_000:93, 110, 127-129): the timer is started
\* and the call suspends.
StartDelay(st, delayMs) ==
    [st EXCEPT !.pc = "delay",
               !.waited = Append(@, delayMs),
               !.trace = Append(@, <<"delay", attempt + 1>>)]

\* The two statements in the other order: the timer is started first.
NotifyThenDelay_DelayFirst(st, ev, delayMs, cb) ==
    CallOnRetry(StartDelay(st, delayMs), ev, cb)

\* The event reports delayMs while the wait is always initialDelayMs.
NotifyThenDelay_FixedWait(st, ev, delayMs, cb) ==
    LET c == CallOnRetry(st, ev, cb)
    IN  IF c.raised THEN c
        ELSE [st |-> StartDelay(c.st, opts.initialDelayMs), raised |-> FALSE]

\* opts.onRetry?.(ev); await delay(delayMs)  (part_000:84-93, 101-110)
NotifyThenDelay(st, ev, delayMs, cb) ==
    LET c == CallOnRetry(st, ev, cb)
    IN  IF c.raised THEN c ELSE [st |-> StartDelay(c.st, delayMs), raised |-> FALSE]

\* catch (e) { ... }  (part_000:94-111).  A raise of onRetry in here leaves
\* the async function.
CatchBlock(st, e, cb) ==
    LET err == ToError(e)
        st1 == [st EXCEPT !.lastErr = err]
    IN  IF IsFinalAttempt(attempt, opts)
        THEN [st1 EXCEPT !.pc = "thrown", !.outcome = Raised(err)]
        ELSE LET delayMs == calculateDelay(attempt, opts)
                 ev == RetryEvent(attempt, delayMs, {}, {err.text})
                 n == NotifyThenDelay(st1, ev, delayMs, cb)
             IN  IF n.raised
                 THEN [n.st EXCEPT !.pc = "thrown", !.outcome = Raised(CallbackError)]
                 ELSE n.st

\* The try block after  await boundFetch(input, init)  resolved with res
\* (part_000:74-93).  A raise of onRetry in here is caught by the catch
\* block of the same iteration.
TryBlock(st, res, cb1, cb2) ==
    IF ~shouldRetry(res.status, opts)
    THEN [st EXCEPT !.pc = "returned", !.outcome = Returned(res)]
    ELSE IF IsFinalAttempt(attempt, opts)
    THEN [st EXCEPT !.pc = "returned", !.outcome = Returned(res)]
    ELSE LET delayMs == calculateDelay(attempt, opts)
             ev == RetryEvent(attempt, delayMs, {res.status}, {})
             n == NotifyThenDelay(st, ev, delayMs, cb1)
         IN  IF n.raised
             THEN CatchBlock(n.st, CallbackError, cb2)
             ELSE n.st

\* The loop with the condition attempt < opts.maxRetries.
LoopHead_Exclusive(st, a) ==
    IF a < opts.maxRetries
    THEN [st EXCEPT !.pc = "fetch", !.trace = Append(@, <<"fetch", a>>)]
    ELSE [st EXCEPT !.pc = "thrown",
                    !.outcome = Raised(IF st.lastErr # Undefined
                                       THEN st.lastErr ELSE FallbackError)]

\* for (...; attempt <= opts.maxRetries; ...) { try { await boundFetch(...)
\* and, past the loop, throw lastErr || new Error(...)  (part_000:70-72, 114)
LoopHead(st, a) ==
    IF a <= opts.maxRetries
    THEN [st EXCEPT !.pc = "fetch", !.trace = Append(@, <<"fetch", a>>)]
    ELSE [st EXCEPT !.pc = "thrown",
                    !.outcome = Raised(IF st.lastErr # Undefined
                                       THEN st.lastErr ELSE FallbackError)]

Apply(st) ==
    /\ pc' = st.pc
    /\ lastErr' = st.lastErr
    /\ outcome' = st.outcome
    /\ retryLog' = st.retryLog
    /\ waited' = st.waited
    /\ trace' = st.trace

\* ----------------------------------------------------------------- frames
\* The two composables that fetch through the wrapper.
Composables == {"devices", "reservations"}

\* ref([]), ref(0), ref(false), ref(null)  (part_000:390-392,
\* useReservations.ts:39-42).  error is a set with at most one element.
InitialRefs == [items |-> <<>>, totalCount |-> 0, loading |-> FALSE, error |-> {}]

\* No fetchDevices / fetchMyReservations call owns the wrapper call.
NoFetch ==
    [kind |-> "none", fpc |-> "none", ok |-> FALSE,
     statusCode |-> {}, route |-> "", log |-> <<>>,
     seq |-> 0, before |-> InitialRefs]

\* The locals of a call, as one record: what is saved while another call
\* runs.
ActiveFrame ==
    [request |-> request, pc |-> pc, attempt |-> attempt, lastErr |-> lastErr,
     outcome |-> outcome, calls |-> calls, retryLog |-> retryLog,
     waited |-> waited, trace |-> trace, fd |-> fd]

\* The frame of a call that has not been made.
IdleFrame ==
    [request |-> NoRequest, pc |-> "idle", attempt |-> 0, lastErr |-> Undefined,
     outcome |-> NoOutcome, calls |-> <<>>, retryLog |-> <<>>,
     waited |-> <<>>, trace |-> <<>>, fd |-> NoFetch]

\* attempt and lastErr declared in the enclosing closure, once per wrapper
\* instance.
SharedState_Closure == {"attempt", "lastErr"}

\* The locals that all calls of one wrapper instance share: none, since
\* lastErr and attempt are declared inside the returned function
\* (part_000:52-70).
SharedState == {}

\* The value a frame field has after the other call has been resumed.
Resumed(field) ==
    IF field \in SharedState THEN ActiveFrame[field] ELSE parked[field]

\* The event loop runs the continuation of the other call: the running call
\* is suspended at its await and the suspended one becomes the running one.
\* A call that has ended has no continuation.
Switch ==
    /\ parked.fd.fpc # "done"
    /\ parked' = [f \in DOMAIN ActiveFrame |->
                     IF f \in SharedState THEN parked[f] ELSE ActiveFrame[f]]
    /\ request' = Resumed("request")
    /\ pc' = Resumed("pc")
    /\ attempt' = Resumed("attempt")
    /\ lastErr' = Resumed("lastErr")
    /\ outcome' = Resumed("outcome")
    /\ calls' = Resumed("calls")
    /\ retryLog' = Resumed("retryLog")
    /\ waited' = Resumed("waited")
    /\ trace' = Resumed("trace")
    /\ fd' = Resumed("fd")
    /\ UNCHANGED <<opts, comp, isAuthenticated, invocations>>

\* The operations that change data on the server: addReservation,
\* cancelReservation, upsertDevices.
Mutations == {"add", "cancel", "upsert"}

\* ref(false), ref(null), ref(false)  (part_003:34-36,
\* useCancelReservations.ts:16-18, useCancelReservations.test.ts:201-203)
MutationRefs == [loading |-> FALSE, error |-> {}, success |-> FALSE]

\* No call: the locals of a call that has not been made.  signedIn records
\* the value of isAuthenticated the call read, requests the fetch calls it
\* made.
NoMutation ==
    [kind |-> "none", mpc |-> "none", input |-> <<>>, signedIn |-> FALSE, ok |-> FALSE,
     statusCode |-> {}, requests |-> 0, method |-> "", result |-> "pending", log |-> <<>>]

InitialOps ==
    [refs |-> [k \in Mutations |-> MutationRefs],
     call |-> [i \in 1..MaxMutationCalls |-> NoMutation]]

\* A run of a handler of the Devices view: onMounted, the isAuthenticated
\* watcher, onReserve or onCancel (Devices.vue:52-90).  vpc is the call the
\* run awaits ("mutation", "devices", "reservations") or "done"; slot is the
\* addReservation / cancelReservation call it made and call the locals of
\* the fetchDevices / fetchMyReservations call it made last; log lists what
\* the run has done so far.  changedTo is the value isAuthenticated changed
\* to, and seen the value the watcher read at line 82.
NoTask ==
    [kind |-> "none", vpc |-> "none", changedTo |-> FALSE, seen |-> {},
     slot |-> 0, call |-> NoFetch, log |-> <<>>]

\* The view before it is mounted.
InitialPage == [mounted |-> FALSE, task |-> [t \in 1..MaxPageTasks |-> NoTask]]

\* ---------------------------------------------------------------- actions
\* No call has been made: the locals of both frames and the refs of the
\* composables have their initial values.
InitCall ==
    /\ request = NoRequest
    /\ pc = "idle"
    /\ attempt = 0
    /\ lastErr = Undefined
    /\ outcome = NoOutcome
    /\ calls = <<>>
    /\ retryLog = <<>>
    /\ waited = <<>>
    /\ trace = <<>>
    /\ fd = NoFetch
    /\ parked = IdleFrame
    /\ comp = [k \in Composables |-> InitialRefs]
    /\ invocations = <<>>
    /\ ops = InitialOps
    /\ page = InitialPage

\* createFetchWithRetry(baseFetch, options) has run (part_000:46-50).
Init ==
    /\ opts \in OptionSet
    /\ InitCall
    /\ isAuthenticated = FALSE

\* The returned function is called with (input, init): part_000:52-72.
Invoke(req) ==
    /\ pc = "idle"
    /\ request' = req
    /\ attempt' = 0
    /\ Apply(LoopHead([Cur EXCEPT !.lastErr = Undefined], 0))
    /\ UNCHANGED <<opts, calls>>

\* boundFetch resolved with a response of the given status: part_000:72-93.
FetchResolve(status, cb1, cb2) ==
    /\ pc = "fetch"
    /\ LET res == [id |-> Len(calls) + 1, status |-> status]
       IN  /\ calls' = Append(calls, [kind |-> "response", res |-> res,
                                      err |-> Undefined, args |-> FetchArgs(request)])
           /\ Apply(TryBlock([Cur EXCEPT !.trace = Append(@, <<"response", attempt>>)],
                             res, cb1, cb2))
    /\ UNCHANGED <<opts, request, attempt>>

\* boundFetch threw or rejected with e: part_000:94-111.
FetchReject(e, cb) ==
    /\ pc = "fetch"
    /\ LET v == [e EXCEPT !.id = Len(calls) + 1]
       IN  /\ calls' = Append(calls, [kind |-> "fault", res |-> NoResponse,
                                      err |-> v, args |-> FetchArgs(request)])
           /\ Apply(CatchBlock([Cur EXCEPT !.trace = Append(@, <<"fault", attempt>>)], v, cb))
    /\ UNCHANGED <<opts, request, attempt>>

\* The timer of delay() fired: attempt++ and the next iteration begins
\* (part_000:70-72, 93, 110, 114).
DelayElapsed ==
    /\ pc = "delay"
    /\ attempt' = attempt + 1
    /\ Apply(LoopHead([Cur EXCEPT !.trace = Append(@, <<"elapsed", attempt + 1>>)],
                      attempt + 1))
    /\ UNCHANGED <<opts, request, calls>>

Next ==
    \/ \E req \in Requests : Invoke(req) /\ Frozen
    \/ \E status \in Statuses, cb1 \in CallbackBehaviours, cb2 \in CallbackBehaviours :
           FetchResolve(status, cb1, cb2) /\ Frozen
    \/ \E e \in BaseFaults, cb \in CallbackBehaviours : FetchReject(e, cb) /\ Frozen
    \/ DelayElapsed /\ Frozen

Spec == Init /\ [][Next]_vars

\* Two calls of one wrapper instance, interleaved at their awaits.
ConcurrentOptionSet ==
    { o \in OptionSet :
        /\ o.maxRetries <= MaxConcurrentRetries
        /\ o.initialDelayMs = DefaultInitialDelayMs
        /\ o.maxDelayMs = DefaultMaxDelayMs
        /\ o.retryOnStatus = DefaultRetryOnStatus }

InitConcurrent == Init /\ opts \in ConcurrentOptionSet

NextConcurrent ==
    \/ Next
    \/ Switch /\ OthersIdle

SpecConcurrent == InitConcurrent /\ [][NextConcurrent]_vars

\* The runtime completes what a call awaits: every base fetch in flight
\* eventually resolves or rejects, and every timer eventually fires.
FetchCompletes ==
    \/ \E status \in Statuses, cb1 \in CallbackBehaviours, cb2 \in CallbackBehaviours :
           FetchResolve(status, cb1, cb2) /\ Frozen
    \/ \E e \in BaseFaults, cb \in CallbackBehaviours : FetchReject(e, cb) /\ Frozen

LiveSpec ==
    Init /\ [][Next]_vars /\ WF_vars(FetchCompletes) /\ WF_vars(DelayElapsed /\ Frozen)

TypeOK ==
    /\ opts \in OptionSet
    /\ pc \in {"idle", "fetch", "delay", "returned", "thrown"}
    /\ attempt \in 0..(opts.maxRetries + 1)
    /\ Len(calls) <= opts.maxRetries + 1


\* ------------------------------------------------------------ composables
\* useDevices.fetchDevices (part_000:397-516) and
\* useReservations.fetchMyReservations (useReservations.ts:44-130).  Both
\* fetch through a wrapper they create per call; the telemetry sink and the
\* token service are external, and a telemetry call returns.

FetchOptions_NoRetries ==
    MergeOptions([maxRetries     |-> 0,
                  initialDelayMs |-> DefaultInitialDelayMs,
                  maxDelayMs     |-> DevicesMaxDelayMs,
                  retryOnStatus  |-> DefaultRetryOnStatus,
                  onRetry        |-> "present"])

\* createFetchWithRetry(fetch, { maxRetries: 1, initialDelayMs: 300,
\* maxDelayMs: 1200, retryOnStatus: [...], onRetry })  (part_000:430-447,
\* useReservations.ts:73-90)
FetchOptions ==
    MergeOptions([maxRetries     |-> DevicesMaxRetries,
                  initialDelayMs |-> DefaultInitialDelayMs,
                  maxDelayMs     |-> DevicesMaxDelayMs,
                  retryOnStatus  |-> DefaultRetryOnStatus,
                  onRetry        |-> "present"])

\* Statuses the API answers with.
FetchStatuses == {200, 404, 500}

\* res.ok
IsOk(status) == status \in 200..299

\* res.statusText
StatusText(status) ==
    CASE status = 200 -> "OK"
      [] status = 404 -> "Not Found"
      [] status = 500 -> "Server Error"
      [] OTHER        -> ""

\* A message: a text, and for the templates with ${res.status} and
\* ${res.statusText} the values filled in.
Msg(text) == [text |-> text, status |-> 0, statusText |-> ""]

\* `Failed to fetch devices: ${res.status} ${res.statusText}`  (part_000:455)
DevicesFailedMsg(status) ==
    [text |-> "Failed to fetch devices: ", status |-> status,
     statusText |-> StatusText(status)]

\* `Failed to fetch reservations (HTTP ${res.status})`  (useReservations.ts:104)
ReservationsFailedMsg(status) ==
    [text |-> "Failed to fetch reservations (HTTP )", status |-> status, statusText |-> ""]

\* 'You must be signed in to view your reservations.'  (useReservations.ts:58)
SignInMsg == Msg("You must be signed in to view your reservations.")

\* 'Unknown error'  (part_000:502, useReservations.ts:117)
UnknownErrorMsg == Msg("Unknown error")

\* What getAccessTokenSilently and res.json() raise when they fail.
TokenError == [isError |-> TRUE, text |-> "Login required", origin |-> "auth0", id |-> 0]
JsonError == [isError |-> TRUE, text |-> "Unexpected token", origin |-> "json", id |-> 0]

\* The JSON bodies of the catalogue: an array of items, or something else.
DeviceBodies == {[isArray |-> TRUE, ids |-> <<"m1">>], [isArray |-> FALSE, ids |-> <<>>]}

\* The JSON bodies of the reservations API: data with a list and a count, a
\* body without usable data (or null), a failure with a message.
ReservationBodies ==
    {[hasList |-> TRUE, ids |-> <<"r1">>, total |-> {1}, message |-> {}],
     [hasList |-> FALSE, ids |-> <<>>, total |-> {}, message |-> {}],
     [hasList |-> FALSE, ids |-> <<>>, total |-> {}, message |-> {"Backend says nope"}]}

\* new URL(route, API_BASE).toString() with { headers }  (part_000:449-450)
RequestOf(route) == [kind |-> "string", url |-> route, method |-> ""]

\* The wrapper variables, which a step outside the wrapper leaves alone.
WrapperIdle ==
    UNCHANGED <<request, pc, attempt, lastErr, outcome, calls, retryLog, waited, trace>>

\* trackDependency(name, url, duration, ok, statusCode)
DependencyOf_AlwaysOk(f) ==
    [fn |-> "trackDependency", success |-> TRUE, statusCode |-> f.statusCode]

DependencyOf(f) == [fn |-> "trackDependency", success |-> f.ok, statusCode |-> f.statusCode]

\* catch (e) { error.value = ...; trackException } finally { loading.value =
\* false; trackDependency(...) }  (part_000:501-515, useReservations.ts:116-129)
CatchFinally(c, f, isErr, msg) ==
    [comp |-> [c EXCEPT ![f.kind].error = {IF isErr THEN msg ELSE UnknownErrorMsg},
                        ![f.kind].loading = FALSE],
     fd   |-> [f EXCEPT !.fpc = "done",
                        !.log = @ \o (IF isErr
                                      THEN <<[fn |-> "trackException", message |-> msg]>>
                                      ELSE <<>>)
                                  \o <<DependencyOf(f)>>]]

\* The data is stored, ok = true, and the finally block runs
\* (part_000:461-500, 506-515, useReservations.ts:108-115, 120-129).
StoreFinally(c, f, items, total, extra) ==
    LET f1 == [f EXCEPT !.ok = TRUE]
    IN  [comp |-> [c EXCEPT ![f.kind].items = items,
                            ![f.kind].totalCount = total,
                            ![f.kind].loading = FALSE],
         fd   |-> [f1 EXCEPT !.fpc = "done",
                             !.log = @ \o extra \o <<DependencyOf(f1)>>]]

Settle(r) == comp' = r.comp /\ fd' = r.fd

PassesGuard_IgnoresForce(k, force) == ~comp[k].loading

\* if (loading.value && !force) return  (part_000:398, useReservations.ts:45)
PassesGuard(k, force) == ~(comp[k].loading /\ ~force)

\* The record of a call: the composable, the value of loading its guard
\* read, and whether it passed the guard.
Invocation(k, passed) == [kind |-> k, loading |-> comp[k].loading, passed |-> passed]

\* A frame in which a call can run.
FrameFree == fd.kind = "none" /\ pc = "idle"

\* The locals of a call that passed the guard; seq and before record the
\* position of the call among all calls and the refs as the call found them.
\* After the guard, force is only passed on to the FetchDevices event.
NewFetch(k, route) ==
    [kind |-> k, fpc |-> "none", ok |-> FALSE,
     statusCode |-> {}, route |-> route, log |-> <<>>,
     seq |-> Len(invocations) + 1, before |-> comp[k]]

\* fetchDevices(force) or fetchMyReservations(force) while loading and not
\* forced: the call returns at once (part_000:398, useReservations.ts:45).
FetchBlocked(k, force) ==
    /\ Len(invocations) < MaxInvocations
    /\ ~PassesGuard(k, force)
    /\ invocations' = Append(invocations, Invocation(k, FALSE))
    /\ WrapperIdle
    /\ UNCHANGED <<opts, fd, parked, comp, isAuthenticated>>

\* fetchDevices(force) up to its first await (part_000:397-450).
DevicesStart(force) ==
    /\ Len(invocations) < MaxInvocations
    /\ FrameFree
    /\ PassesGuard("devices", force)
    /\ invocations' = Append(invocations, Invocation("devices", TRUE))
    /\ comp' = [comp EXCEPT !["devices"].loading = TRUE, !["devices"].error = {}]
    /\ LET route == IF isAuthenticated THEN "catalogue/availability" ELSE "catalogue"
           f == [NewFetch("devices", route) EXCEPT
                    !.log = <<[fn |-> "trackEvent", name |-> "FetchDevices"]>>]
       IN  IF isAuthenticated
           THEN /\ fd' = [f EXCEPT !.fpc = "token",
                                   !.log = Append(@, [fn |-> "getAccessTokenSilently",
                                                      scope |-> "read:devices"])]
                /\ WrapperIdle
           ELSE /\ fd' = [f EXCEPT !.fpc = "http"]
                /\ Invoke(RequestOf(route))
    /\ UNCHANGED <<opts, parked, isAuthenticated>>

\* getAccessTokenSilently resolved: fetchDevices goes on to
\* await fetchWithRetry(url, { headers })  (part_000:421-450).
DevicesTokenResolved ==
    /\ fd.kind = "devices" /\ fd.fpc = "token"
    /\ fd' = [fd EXCEPT !.fpc = "http"]
    /\ Invoke(RequestOf(fd.route))
    /\ UNCHANGED <<opts, parked, comp, isAuthenticated, invocations>>

\* getAccessTokenSilently rejected (part_000:421, 501-515).
DevicesTokenRejected ==
    /\ fd.kind = "devices" /\ fd.fpc = "token"
    /\ Settle(CatchFinally(comp, fd, TokenError.isError, Msg(TokenError.text)))
    /\ WrapperIdle
    /\ UNCHANGED <<opts, parked, isAuthenticated, invocations>>

\* fetchWithRetry settled: statusCode = res.status, the ok test, and
\* await res.json(); or the catch and finally blocks (part_000:450-459,
\* 501-515).
DevicesResponse ==
    /\ fd.kind = "devices" /\ fd.fpc = "http" /\ pc \in {"returned", "thrown"}
    /\ IF pc = "thrown"
       THEN Settle(CatchFinally(comp, fd, outcome.err.isError, Msg(outcome.err.text)))
       ELSE LET f == [fd EXCEPT !.statusCode = {outcome.res.status}]
            IN  IF ~IsOk(outcome.res.status)
                THEN Settle(CatchFinally(comp, f, TRUE, DevicesFailedMsg(outcome.res.status)))
                ELSE fd' = [f EXCEPT !.fpc = "json"] /\ comp' = comp
    /\ WrapperIdle
    /\ UNCHANGED <<opts, parked, isAuthenticated, invocations>>

\* res.json() resolved: the devices are stored (part_000:459-500, 506-515).
DevicesJson(body) ==
    /\ fd.kind = "devices" /\ fd.fpc = "json"
    /\ IF ~body.isArray
       THEN Settle(StoreFinally(comp, fd, <<>>, comp["devices"].totalCount, <<>>))
       ELSE LET view == IF isAuthenticated THEN "availability" ELSE "public"
                items == [i \in 1..Len(body.ids) |-> [id |-> body.ids[i], view |-> view]]
            IN  Settle(StoreFinally(comp, fd, items, comp["devices"].totalCount,
                                    <<[fn |-> "trackMetric", name |-> "DevicesCount",
                                       value |-> Len(items)]>>))
    /\ WrapperIdle
    /\ UNCHANGED <<opts, parked, isAuthenticated, invocations>>

\* res.json() rejected (part_000:459, 501-515).
DevicesJsonRejected ==
    /\ fd.kind = "devices" /\ fd.fpc = "json"
    /\ Settle(CatchFinally(comp, fd, JsonError.isError, Msg(JsonError.text)))
    /\ WrapperIdle
    /\ UNCHANGED <<opts, parked, isAuthenticated, invocations>>

ClearReservations_Forgotten(c) == c

\* reservations.value = []; totalCount.value = 0  (useReservations.ts:55-56)
ClearReservations(c) ==
    [c EXCEPT !["reservations"].items = <<>>, !["reservations"].totalCount = 0]

\* fetchMyReservations(force) up to its first await, or to its end when not
\* authenticated (useReservations.ts:44-66, 116-129).
ReservationsStart(force) ==
    /\ Len(invocations) < MaxInvocations
    /\ FrameFree
    /\ PassesGuard("reservations", force)
    /\ invocations' = Append(invocations, Invocation("reservations", TRUE))
    /\ LET c == [comp EXCEPT !["reservations"].loading = TRUE,
                             !["reservations"].error = {}]
           f == NewFetch("reservations", "reservations")
       IN  IF ~isAuthenticated
           THEN Settle(CatchFinally(ClearReservations(c), f, TRUE, SignInMsg))
           ELSE /\ comp' = c
                /\ fd' = [f EXCEPT !.fpc = "token",
                                   !.log = <<[fn |-> "getAccessTokenSilently",
                                              scope |-> "read:reservations"]>>]
    /\ WrapperIdle
    /\ UNCHANGED <<opts, parked, isAuthenticated>>

\* getAccessTokenSilently resolved (useReservations.ts:61-93).
ReservationsTokenResolved ==
    /\ fd.kind = "reservations" /\ fd.fpc = "token"
    /\ fd' = [fd EXCEPT !.fpc = "http"]
    /\ Invoke(RequestOf(fd.route))
    /\ UNCHANGED <<opts, parked, comp, isAuthenticated, invocations>>

\* getAccessTokenSilently rejected (useReservations.ts:61, 116-129).
ReservationsTokenRejected ==
    /\ fd.kind = "reservations" /\ fd.fpc = "token"
    /\ Settle(CatchFinally(comp, fd, TokenError.isError, Msg(TokenError.text)))
    /\ WrapperIdle
    /\ UNCHANGED <<opts, parked, isAuthenticated, invocations>>

\* fetchWithRetry settled: statusCode = res.status and
\* await res.json().catch(() => null); or the catch and finally blocks
\* (useReservations.ts:93-99, 116-129).
ReservationsResponse ==
    /\ fd.kind = "reservations" /\ fd.fpc = "http" /\ pc \in {"returned", "thrown"}
    /\ IF pc = "thrown"
       THEN Settle(CatchFinally(comp, fd, outcome.err.isError, Msg(outcome.err.text)))
       ELSE /\ fd' = [fd EXCEPT !.statusCode = {outcome.res.status}, !.fpc = "json"]
            /\ comp' = comp
    /\ WrapperIdle
    /\ UNCHANGED <<opts, parked, isAuthenticated, invocations>>

\* res.json() settled with a body (null when it rejected): the ok test and
\* the store (useReservations.ts:96-115, 116-129).
ReservationsJson(body) ==
    /\ fd.kind = "reservations" /\ fd.fpc = "json"
    /\ IF ~IsOk(outcome.res.status)
       THEN Settle(CatchFinally(comp, fd, TRUE,
                                IF body.message # {}
                                THEN Msg(CHOOSE m \in body.message : TRUE)
                                ELSE ReservationsFailedMsg(outcome.res.status)))
       ELSE Settle(StoreFinally(comp, fd,
                                IF body.hasList
                                THEN [i \in 1..Len(body.ids) |->
                                         [id |-> body.ids[i], view |-> "reservation"]]
                                ELSE <<>>,
                                IF body.total # {} THEN CHOOSE n \in body.total : TRUE ELSE 0,
                                <<>>))
    /\ WrapperIdle
    /\ UNCHANGED <<opts, parked, isAuthenticated, invocations>>

\* The user signs in or out: isAuthenticated changes.
AuthChange ==
    /\ isAuthenticated' = ~isAuthenticated
    /\ WrapperIdle
    /\ UNCHANGED <<opts, fd, parked, comp, invocations>>

\* What a call of the telemetry sink does: it records and returns.
TelemetryBehaviours == {"returns"}

\* The wrapper steps of the call that runs; its onRetry callback is
\* trackEvent('HttpRetry', ...)  (part_000:435-446).
FetchWrapperStep ==
    /\ fd.fpc = "http"
    /\ \/ \E status \in FetchStatuses, cb1, cb2 \in TelemetryBehaviours :
              FetchResolve(status, cb1, cb2)
       \/ \E e \in BaseFaults, cb \in TelemetryBehaviours : FetchReject(e, cb)
       \/ DelayElapsed
    /\ Frozen

InitFetch ==
    /\ opts = FetchOptions
    /\ InitCall
    /\ isAuthenticated \in BOOLEAN

NextFetch ==
    \/ \E k \in Composables, force \in BOOLEAN : FetchBlocked(k, force) /\ OthersIdle
    \/ \E force \in BOOLEAN : DevicesStart(force) /\ OthersIdle
    \/ DevicesTokenResolved /\ OthersIdle
    \/ DevicesTokenRejected /\ OthersIdle
    \/ DevicesResponse /\ OthersIdle
    \/ \E body \in DeviceBodies : DevicesJson(body) /\ OthersIdle
    \/ DevicesJsonRejected /\ OthersIdle
    \/ \E force \in BOOLEAN : ReservationsStart(force) /\ OthersIdle
    \/ ReservationsTokenResolved /\ OthersIdle
    \/ ReservationsTokenRejected /\ OthersIdle
    \/ ReservationsResponse /\ OthersIdle
    \/ \E body \in ReservationBodies : ReservationsJson(body) /\ OthersIdle
    \/ FetchWrapperStep
    \/ AuthChange /\ OthersIdle
    \/ Switch /\ OthersIdle

SpecFetch == InitFetch /\ [][NextFetch]_vars

\* -------------------------------------------------------------- mutations
\* useAddReservations.addReservation (part_003:38-107),
\* useCancelReservations.cancelReservation (useCancelReservations.ts:20-93)
\* and useUpsertDevices.upsertDevices (useCancelReservations.test.ts:205-287).
\* None has a loading guard; every call has its own locals.

\* The fetch function an operation calls: fetchDevices and
\* fetchMyReservations the wrapper they create, the mutations the global
\* fetch (part_003:59, useCancelReservations.ts:46,
\* useCancelReservations.test.ts:239).
Transport_AllRetrying(op) == "fetchWithRetry"

Transport(op) == IF op \in Composables THEN "fetchWithRetry" ELSE "fetch"

\* Statuses the API answers a mutation with.
MutationStatuses == {200, 404, 500}

\* Strings, as sequences of characters; the white space trim() removes.
WhiteSpace == {" "}

RECURSIVE TrimStart(_)
TrimStart(str) ==
    IF str # <<>> /\ Head(str) \in WhiteSpace THEN TrimStart(Tail(str)) ELSE str

RECURSIVE TrimEnd(_)
TrimEnd(str) ==
    IF str # <<>> /\ str[Len(str)] \in WhiteSpace
    THEN TrimEnd(SubSeq(str, 1, Len(str) - 1))
    ELSE str

\* String.prototype.trim
Trim(str) == TrimEnd(TrimStart(str))

\* !reservationId || reservationId.trim().length === 0
\* (useCancelReservations.ts:33)
IsBlankId(reservationId) == reservationId = <<>> \/ Len(Trim(reservationId)) = 0

\* The arguments the calls are made with: a reservation id (present, empty,
\* blank) for cancelReservation, a command for the other two.
ReservationIds == { <<"r", "1">>, <<>>, <<" ", " ">> }
Commands == { <<"m", "1">> }
Inputs(k) == IF k = "cancel" THEN ReservationIds ELSE Commands

\* The JSON bodies of a mutation's response: none (null), a body without a
\* message, a message, a message with a list of errors.
MutationBodies ==
    {[present |-> FALSE, message |-> {}, errors |-> <<>>],
     [present |-> TRUE, message |-> {}, errors |-> <<>>],
     [present |-> TRUE, message |-> {"Device unavailable"}, errors |-> <<>>],
     [present |-> TRUE, message |-> {"Invalid"}, errors |-> <<"e1">>]}

\* An error message: its text, the ${res.status} of a fallback text, and the
\* errors joined to it.
MutationMsg(text, status, errors) == [text |-> text, status |-> status, errors |-> errors]

RequiresSignIn_Nobody(k) == FALSE

\* if (!isAuthenticated.value) throw ...  (part_003:48-50,
\* useCancelReservations.ts:30-32); upsertDevices has no such test.
RequiresSignIn(k) == k \in {"add", "cancel"}

SignInRequiredMsg(k) ==
    IF k = "add"
    THEN MutationMsg("You must be signed in to reserve a device.", 0, <<>>)
    ELSE MutationMsg("You must be signed in to cancel a reservation.", 0, <<>>)

\* 'reservationId is required.'  (useCancelReservations.ts:34)
IdRequiredMsg == MutationMsg("reservationId is required.", 0, <<>>)

\* 'Unexpected error'  (part_003:91, useCancelReservations.ts:74)
UnexpectedErrorMsg == MutationMsg("Unexpected error", 0, <<>>)

\* The message of the Error thrown on a response that is not ok
\* (part_003:77-83, useCancelReservations.ts:62-67,
\* useCancelReservations.test.ts:247-260).
FailureMsg(k, status, body) ==
    LET msg == IF body.message # {}
               THEN MutationMsg(CHOOSE m \in body.message : TRUE, 0, <<>>)
               ELSE MutationMsg(CASE k = "add" -> "Failed to add reservation (HTTP )"
                                  [] k = "cancel" -> "Failed to cancel reservation (HTTP )"
                                  [] OTHER -> "Failed to add device (HTTP )",
                                status, <<>>)
    IN  IF k = "add" THEN [msg EXCEPT !.errors = body.errors] ELSE msg

\* return null / return false / no return value, after a fault.
FailureResult(k) ==
    CASE k = "add" -> "null" [] k = "cancel" -> "false" [] OTHER -> "undefined"

\* return json as ReservationDto / return true / no return value.
SuccessResult(k, body) ==
    CASE k = "add" -> (IF body.present THEN "dto" ELSE "null")
      [] k = "cancel" -> "true"
      [] OTHER -> "undefined"

\* A result the view takes for true.
Truthy(result) == result \in {"dto", "true"}

MutationDependency(c) ==
    [fn |-> "trackDependency", success |-> c.ok, statusCode |-> c.statusCode]

\* catch (e) { error.value = ...; trackException; trackEvent; return ... }
\* finally { loading.value = false; trackDependency(...) }
\* (part_003:90-104, useCancelReservations.ts:73-91,
\* useCancelReservations.test.ts:268-285)
MutationCatch(o, i, isErr, msg) ==
    LET c == o.call[i]
        text == IF isErr THEN msg ELSE UnexpectedErrorMsg
    IN  [o EXCEPT !.refs[c.kind].error = {text},
                  !.refs[c.kind].loading = FALSE,
                  !.call[i].mpc = "done",
                  !.call[i].result = FailureResult(c.kind),
                  !.call[i].log =
                      @ \o (IF isErr THEN <<[fn |-> "trackException", message |-> msg]>>
                            ELSE <<>>)
                        \o (IF c.kind = "upsert" THEN <<>>
                            ELSE <<[fn |-> "trackEvent", message |-> text]>>)
                        \o <<MutationDependency(c)>>]

\* success.value = true; ok = true; trackEvent; return; finally
\* (part_003:85-89, 96-104, useCancelReservations.ts:69-72, 81-91,
\* useCancelReservations.test.ts:263-267, 274-285)
MutationSucceed(o, i, body) ==
    LET c == [o.call[i] EXCEPT !.ok = TRUE]
    IN  [o EXCEPT !.refs[c.kind].success = TRUE,
                  !.refs[c.kind].loading = FALSE,
                  !.call[i] = [c EXCEPT !.mpc = "done",
                                        !.result = SuccessResult(c.kind, body),
                                        !.log = @ \o <<[fn |-> "trackEvent",
                                                        name |-> "Success"],
                                                       MutationDependency(c)>>]]

\* What a mutation leaves untouched.
RetryingIdle ==
    /\ WrapperIdle
    /\ UNCHANGED <<opts, fd, parked, comp, invocations>>

\* The next unused call.
FreeCall(i) ==
    /\ ops.call[i].kind = "none"
    /\ \A j \in 1..(i - 1) : ops.call[j].kind # "none"

\* method: 'POST' / method: 'DELETE'  (part_003:60,
\* useCancelReservations.ts:47, useCancelReservations.test.ts:240)
HttpMethod(k) == IF k = "cancel" THEN "DELETE" ELSE "POST"

\* await fetch(url, { method, headers, body })
SendRequest(o, i) ==
    [o EXCEPT !.call[i].mpc = "http",
              !.call[i].requests = @ + 1,
              !.call[i].method = HttpMethod(o.call[i].kind)]

\* The refs and the locals after the part of a call that runs before its
\* first await (part_003:38-57, useCancelReservations.ts:20-42,
\* useCancelReservations.test.ts:205-237).
BegunMutation(i, k, input) ==
    LET c == [NoMutation EXCEPT !.kind = k, !.input = input,
                                !.signedIn = isAuthenticated]
        o == [ops EXCEPT !.refs[k] = [loading |-> TRUE, error |-> {}, success |-> FALSE],
                         !.call[i] = c]
        token == [o EXCEPT !.call[i].mpc = "token",
                           !.call[i].log = <<[fn |-> "getAccessTokenSilently"]>>]
    IN  CASE RequiresSignIn(k) /\ ~isAuthenticated ->
                 MutationCatch(o, i, TRUE, SignInRequiredMsg(k))
          [] RequiresSignIn(k) /\ isAuthenticated /\ k = "cancel" /\ IsBlankId(input) ->
                 MutationCatch(o, i, TRUE, IdRequiredMsg)
          [] ~RequiresSignIn(k) /\ ~isAuthenticated -> SendRequest(o, i)
          [] OTHER -> token

\* addReservation(command), cancelReservation(reservationId) or
\* upsertDevices(command) up to its first await, or to its end when the
\* call may not be made.
MutationStart(i, k, input) ==
    /\ FreeCall(i)
    /\ ops' = BegunMutation(i, k, input)
    /\ RetryingIdle
    /\ UNCHANGED <<isAuthenticated, page>>

\* getAccessTokenSilently resolved: the request is sent (part_003:52-69,
\* useCancelReservations.ts:37-55, useCancelReservations.test.ts:231-243).
MutationTokenResolved(i) ==
    /\ ops.call[i].mpc = "token"
    /\ ops' = SendRequest(ops, i)
    /\ RetryingIdle
    /\ UNCHANGED <<isAuthenticated, page>>

\* getAccessTokenSilently rejected.
MutationTokenRejected(i) ==
    /\ ops.call[i].mpc = "token"
    /\ ops' = MutationCatch(ops, i, TokenError.isError,
                            MutationMsg(TokenError.text, 0, <<>>))
    /\ RetryingIdle
    /\ UNCHANGED <<isAuthenticated, page>>

\* fetch resolved with a response: statusCode = res.status and
\* await res.json()  (part_003:71-75, useCancelReservations.ts:57-61,
\* useCancelReservations.test.ts:245-262).  A retrying fetch would send the
\* request again on a retryable status.
MutationResponse(i, status) ==
    /\ ops.call[i].mpc = "http"
    /\ IF /\ Transport(ops.call[i].kind) = "fetchWithRetry"
          /\ status \in FetchOptions.retryOnStatus
          /\ ops.call[i].requests <= FetchOptions.maxRetries
       THEN ops' = SendRequest(ops, i)
       ELSE ops' = [ops EXCEPT !.call[i].statusCode = {status}, !.call[i].mpc = "json"]
    /\ RetryingIdle
    /\ UNCHANGED <<isAuthenticated, page>>

\* fetch threw or rejected with e.
MutationFault(i, e) ==
    /\ ops.call[i].mpc = "http"
    /\ IF /\ Transport(ops.call[i].kind) = "fetchWithRetry"
          /\ ops.call[i].requests <= FetchOptions.maxRetries
       THEN ops' = SendRequest(ops, i)
       ELSE ops' = MutationCatch(ops, i, e.isError, MutationMsg(e.text, 0, <<>>))
    /\ RetryingIdle
    /\ UNCHANGED <<isAuthenticated, page>>

\* res.json() settled with a body (null when it rejected): the ok test and
\* the end of the call (part_003:73-104, useCancelReservations.ts:59-91,
\* useCancelReservations.test.ts:247-285).
MutationJson(i, body) ==
    /\ ops.call[i].mpc = "json"
    /\ LET c == ops.call[i]
           status == CHOOSE n \in c.statusCode : TRUE
       IN  ops' = IF ~IsOk(status)
                  THEN MutationCatch(ops, i, TRUE, FailureMsg(c.kind, status, body))
                  ELSE MutationSucceed(ops, i, body)
    /\ RetryingIdle
    /\ UNCHANGED <<isAuthenticated, page>>

InitMutations ==
    /\ opts = FetchOptions
    /\ InitCall
    /\ isAuthenticated \in BOOLEAN

NextMutations ==
    \/ \E i \in 1..MaxMutationCalls, k \in Mutations :
           \E input \in Inputs(k) : MutationStart(i, k, input)
    \/ \E i \in 1..MaxMutationCalls : MutationTokenResolved(i)
    \/ \E i \in 1..MaxMutationCalls : MutationTokenRejected(i)
    \/ \E i \in 1..MaxMutationCalls, status \in MutationStatuses : MutationResponse(i, status)
    \/ \E i \in 1..MaxMutationCalls, e \in BaseFaults : MutationFault(i, e)
    \/ \E i \in 1..MaxMutationCalls, body \in MutationBodies : MutationJson(i, body)
    \/ AuthChange /\ OthersIdle

SpecMutations == InitMutations /\ [][NextMutations]_vars

\* --------------------------------------------------- the Devices view
\* The view composes the composables.  The runs of its handlers interleave
\* at their awaits.  A fetchDevices / fetchMyReservations call is taken in
\* two steps, the part before its first await and the part after its last,
\* and so is an addReservation / cancelReservation call: between the two
\* the call touches no ref, and how it gets to its response is left to
\* SpecFetch and SpecMutations.
PageIdle == WrapperIdle /\ UNCHANGED <<opts, fd, parked>>

\* The statuses of the final response of a call the view awaits.
PageStatuses == {200, 500}

\* The next unused run.
FreeTask(t) ==
    /\ page.task[t].kind = "none"
    /\ \A u \in 1..(t - 1) : page.task[u].kind # "none"

\* An entry of a run's log.
Called(fn, force) == [fn |-> fn, force |-> force]

\* fetchDevices(force) / fetchMyReservations(force) up to its first await,
\* or to its end when the guard blocks it or nobody is signed in
\* (part_000:397-450, useReservations.ts:44-66); auth is isAuthenticated as
\* the call reads it.  A blocked call has seq 0, a call that passed seq 1.
BegunFetch(k, force, auth) ==
    IF ~PassesGuard(k, force)
    THEN [comp |-> comp, fd |-> [NoFetch EXCEPT !.kind = k, !.fpc = "done"]]
    ELSE LET c == [comp EXCEPT ![k].loading = TRUE, ![k].error = {}]
             route == CASE k = "reservations" -> "reservations"
                        [] auth -> "catalogue/availability"
                        [] OTHER -> "catalogue"
             f == [NoFetch EXCEPT !.kind = k, !.route = route, !.seq = 1]
         IN  IF k = "reservations" /\ ~auth
             THEN CatchFinally(ClearReservations(c), f, TRUE, SignInMsg)
             ELSE [comp |-> c, fd |-> [f EXCEPT !.fpc = "pending"]]

\* The rest of a call once the final response and its body are there
\* (part_000:452-515, useReservations.ts:92-129).
EndedFetch(f, status, body) ==
    LET g == [f EXCEPT !.statusCode = {status}]
        items(view) == [i \in 1..Len(body.ids) |-> [id |-> body.ids[i], view |-> view]]
    IN  CASE f.kind = "devices" /\ ~IsOk(status) ->
                 CatchFinally(comp, g, TRUE, DevicesFailedMsg(status))
          [] f.kind = "devices" /\ IsOk(status) ->
                 IF ~body.isArray
                 THEN StoreFinally(comp, g, <<>>, comp["devices"].totalCount, <<>>)
                 ELSE StoreFinally(comp, g,
                                   items(IF isAuthenticated THEN "availability" ELSE "public"),
                                   comp["devices"].totalCount,
                                   <<[fn |-> "trackMetric", name |-> "DevicesCount",
                                      value |-> Len(body.ids)]>>)
          [] f.kind = "reservations" /\ ~IsOk(status) ->
                 CatchFinally(comp, g, TRUE,
                              IF body.message # {}
                              THEN Msg(CHOOSE m \in body.message : TRUE)
                              ELSE ReservationsFailedMsg(status))
          [] OTHER ->
                 StoreFinally(comp, g,
                              IF body.hasList THEN items("reservation") ELSE <<>>,
                              IF body.total # {} THEN CHOOSE n \in body.total : TRUE ELSE 0,
                              <<>>)

\* What the server sends while the view is used: one body per endpoint (a
\* list with one element), null or a plain body for a mutation; which calls
\* fail is decided by the status.
BodiesOf(k) ==
    IF k = "devices"
    THEN {b \in DeviceBodies : b.isArray}
    ELSE {b \in ReservationBodies : b.hasList}
PageMutationBodies == {b \in MutationBodies : b.message = {}}

\* What the page passes to onReserve and onCancel: the model of a card, the
\* id of a listed reservation.
PageInputs(handler) ==
    IF handler = "reserve" THEN Commands ELSE {id \in ReservationIds : ~IsBlankId(id)}

\* await fetchDevices(force) / await fetchMyReservations(force) in run t:
\* the call begins and the run waits for it.
CallFetch(t, task, k, force, auth) ==
    LET b == BegunFetch(k, force, auth)
    IN  /\ comp' = b.comp
        /\ page' = [page EXCEPT !.mounted = TRUE,
                                !.task[t] = [task EXCEPT !.vpc = k, !.call = b.fd,
                                                         !.log = Append(@, Called(k, force))]]

\* The handler returns.
Return(t, task) ==
    /\ page' = [page EXCEPT !.task[t] = [task EXCEPT !.vpc = "done"]]
    /\ UNCHANGED comp

\* The call run t awaits has finished.
Awaited(t) ==
    LET task == page.task[t]
    IN  CASE task.vpc = "mutation" -> ops.call[task.slot].mpc = "done"
          [] task.vpc \in Composables -> task.call.fpc = "done"
          [] OTHER -> FALSE

\* onMounted(async () => { trackPageView(); await fetchDevices(); ...
\* (Devices.vue:70-73)
PageMounted ==
    /\ ~page.mounted
    /\ CallFetch(1, [NoTask EXCEPT !.kind = "mounted"], "devices", FALSE, isAuthenticated)
    /\ UNCHANGED <<isAuthenticated, ops, invocations>>
    /\ PageIdle

\* ... if (isAuthenticated.value) await fetchMyReservations() })
\* (Devices.vue:74-77)
MountedResume(t) ==
    LET task == page.task[t]
    IN  /\ task.kind = "mounted" /\ Awaited(t)
        /\ IF task.vpc = "devices" /\ isAuthenticated
           THEN CallFetch(t, task, "reservations", FALSE, isAuthenticated)
           ELSE Return(t, task)
        /\ UNCHANGED <<isAuthenticated, ops, invocations>>
        /\ PageIdle

\* isAuthenticated changes and the watcher runs up to its first await:
\* watch(isAuthenticated, async () => { await fetchDevices(true); ...
\* (Devices.vue:80-81).  The callback is flushed before anything else the
\* page awaits can complete.
AuthChanged(t) ==
    /\ page.mounted /\ FreeTask(t)
    /\ isAuthenticated' = ~isAuthenticated
    /\ CallFetch(t, [NoTask EXCEPT !.kind = "watch", !.changedTo = ~isAuthenticated],
                 "devices", TRUE, ~isAuthenticated)
    /\ UNCHANGED <<ops, invocations>>
    /\ PageIdle

\* The else branch left empty.
WatcherClears_Nothing == comp

\* reservations.value = []  (Devices.vue:86)
WatcherClears ==
    [comp EXCEPT !["reservations"].items = <<>>]

\* ... if (isAuthenticated.value) { await fetchMyReservations(true) }
\* else { reservations.value = [] } })  (Devices.vue:82-89)
WatchResume(t) ==
    LET task == [page.task[t] EXCEPT !.seen = {isAuthenticated}]
    IN  /\ task.kind = "watch" /\ Awaited(t)
        /\ CASE task.vpc = "devices" /\ isAuthenticated ->
                    CallFetch(t, task, "reservations", TRUE, isAuthenticated)
             [] task.vpc = "devices" /\ ~isAuthenticated ->
                    /\ comp' = WatcherClears
                    /\ page' = [page EXCEPT !.task[t] =
                                   [task EXCEPT !.vpc = "done",
                                                !.log = Append(@, Called("clear", FALSE))]]
             [] OTHER -> Return(t, page.task[t])
        /\ UNCHANGED <<isAuthenticated, ops, invocations>>
        /\ PageIdle

\* The composable function a handler calls first.
MutationOf(handler) == IF handler = "reserve" THEN "add" ELSE "cancel"

\* onReserve(modelId): const created = await addReservation({ deviceModelId:
\* modelId }), and onCancel(reservationId): const ok = await
\* cancelReservation(reservationId)  (Devices.vue:52-53, 61-62)
OnClick(t, i, handler, input) ==
    /\ page.mounted /\ FreeTask(t) /\ FreeCall(i)
    /\ ops' = BegunMutation(i, MutationOf(handler), input)
    /\ page' = [page EXCEPT !.task[t] =
                   [NoTask EXCEPT !.kind = handler, !.vpc = "mutation", !.slot = i,
                                  !.log = <<Called(MutationOf(handler), FALSE)>>]]
    /\ UNCHANGED <<comp, invocations, isAuthenticated>>
    /\ PageIdle

\* The refresh without the condition.
ShouldRefresh_Always(result) == TRUE

\* if (created) / if (ok): the result of the mutation is truthy
\* (Devices.vue:54, 63).
ShouldRefresh(result) == Truthy(result)

\* if (created) { await fetchDevices(true); await fetchMyReservations(true) }
\* (Devices.vue:54-58, 63-66)
ClickResume(t) ==
    LET task == page.task[t]
    IN  /\ task.kind \in {"reserve", "cancel"} /\ Awaited(t)
        /\ CASE task.vpc = "mutation" /\ ShouldRefresh(ops.call[task.slot].result) ->
                    CallFetch(t, task, "devices", TRUE, isAuthenticated)
             [] task.vpc = "devices" ->
                    CallFetch(t, task, "reservations", TRUE, isAuthenticated)
             [] OTHER -> Return(t, task)
        /\ UNCHANGED <<isAuthenticated, ops, invocations>>
        /\ PageIdle

\* The fetchDevices / fetchMyReservations call of run t gets its final
\* response and finishes.
FetchEnds(t, status, body) ==
    LET f == page.task[t].call
        r == EndedFetch(f, status, body)
    IN  /\ f.fpc = "pending"
        /\ comp' = r.comp
        /\ page' = [page EXCEPT !.task[t].call = r.fd]
        /\ UNCHANGED <<isAuthenticated, ops, invocations>>
        /\ PageIdle

\* The addReservation / cancelReservation call i gets its response and
\* finishes: the token, the request and the body taken together
\* (part_003:52-104, useCancelReservations.ts:37-91).
MutationEnds(i, status, body) ==
    LET c == ops.call[i]
        o == [SendRequest(ops, i) EXCEPT !.call[i].statusCode = {status}]
    IN  /\ c.mpc = "token"
        /\ ops' = IF ~IsOk(status)
                  THEN MutationCatch(o, i, TRUE, FailureMsg(c.kind, status, body))
                  ELSE MutationSucceed(o, i, body)
        /\ UNCHANGED <<isAuthenticated, page, comp, invocations>>
        /\ PageIdle

InitPage ==
    /\ opts = FetchOptions
    /\ InitCall
    /\ isAuthenticated \in BOOLEAN

NextPage ==
    \/ PageMounted
    \/ \E t \in 1..MaxPageTasks : MountedResume(t)
    \/ \E t \in 1..MaxPageTasks : AuthChanged(t)
    \/ \E t \in 1..MaxPageTasks : WatchResume(t)
    \/ \E t \in 1..MaxPageTasks, i \in 1..MaxMutationCalls, handler \in {"reserve", "cancel"} :
           \E input \in PageInputs(handler) : OnClick(t, i, handler, input)
    \/ \E t \in 1..MaxPageTasks : ClickResume(t)
    \/ \E t \in 1..MaxPageTasks, status \in PageStatuses :
           \E body \in BodiesOf(page.task[t].call.kind) : FetchEnds(t, status, body)
    \/ \E i \in 1..MaxMutationCalls, status \in PageStatuses, body \in PageMutationBodies :
           MutationEnds(i, status, body)

SpecPage == InitPage /\ [][NextPage]_vars

\* ------------------------------------------------------- state predicates
Terminal == pc \in {"returned", "thrown"}

Last(seq) == seq[Len(seq)]

IsFault(c) == c.kind = "fault"
IsResponse(c) == c.kind = "response"
IsRetryable(c) == IsResponse(c) /\ c.res.status \in opts.retryOnStatus

AllFaults == \A i \in 1..Len(calls) : IsFault(calls[i])
AllRetryable == \A i \in 1..Len(calls) : IsRetryable(calls[i])

\* ------------------------------------------------------------------ claims

\* C1: for every maxRetries = N >= 0, when the base fetch raises on every
\* call, a finished call of the wrapper has invoked the base fetch exactly
\* N+1 times and has failed by raising.
C1_AlwaysFaultInvokesNPlus1 ==
    (Terminal /\ AllFaults) =>
        (Len(calls) = opts.maxRetries + 1 /\ pc = "thrown" /\ outcome.kind = "throw")

C3_AlwaysRetryableReturnsLast ==
    (Terminal /\ AllRetryable) =>
        /\ Len(calls) = opts.maxRetries + 1
        /\ outcome = Returned(Last(calls).res)

\* C4: an attempt that returns a response whose status is not in
\* retryOnStatus ends the call at once with that response: it is the last
\* base invocation, and no onRetry call and no delay follow it, whatever the
\* attempt index and the status.
C4_NonRetryableReturnsAtOnce ==
    \A i \in 1..Len(calls) :
        (IsResponse(calls[i]) /\ calls[i].res.status \notin opts.retryOnStatus) =>
            /\ i = Len(calls)
            /\ pc = "returned"
            /\ outcome = Returned(calls[i].res)
            /\ Last(trace) = <<"response", i - 1>>
            /\ Len(waited) = i - 1

\* C4 witness: a call has ended on a non-retryable error status received on
\* a later attempt than the first.
C4_Witness ==
    /\ pc = "returned" /\ Len(calls) >= 2
    /\ Last(calls).res.status = 404 /\ 404 \notin opts.retryOnStatus

\* C5: with maxRetries >= 1, when the base fetch answers its first call with
\* a retryable status and its second with 200, a finished call has invoked
\* the base fetch exactly 2 times and has returned the 200 response.
C5_RetryThenSuccess ==
    ( /\ Terminal /\ opts.maxRetries >= 1
      /\ IsRetryable(calls[1])
      /\ Len(calls) >= 2 => (IsResponse(calls[2]) /\ calls[2].res.status = 200) ) =>
        /\ Len(calls) = 2
        /\ outcome = Returned(calls[2].res)
        /\ outcome.res.status = 200

\* C6: in a finished call, onRetry has been invoked exactly (number of base
\* invocations - 1) times, with the attempt numbers 1, 2, 3, ... in this
\* order, each within 1..maxRetries.
C6_OnRetryOncePerRetry ==
    (Terminal /\ opts.onRetry = "present") =>
        /\ Len(retryLog) = Len(calls) - 1
        /\ \A i \in 1..Len(retryLog) :
               retryLog[i].attempt = i /\ retryLog[i].attempt \in 1..opts.maxRetries

\* C7: onRetry is purely observational: whatever the callback does, a
\* finished call has made the base invocations, waited the delays and ended
\* with the outcome of a call without onRetry: it ends only on a
\* non-retryable response or on the attempt with index maxRetries, it has
\* waited one delay per retry, and it returns the last response or raises
\* the last fault.
C7_OnRetryObservational ==
    Terminal =>
        LET c == Last(calls)
        IN  /\ \/ Len(calls) = opts.maxRetries + 1
               \/ IsResponse(c) /\ ~IsRetryable(c)
            /\ Len(waited) = Len(calls) - 1
            /\ IsResponse(c) => outcome = Returned(c.res)
            /\ IsFault(c) => outcome = Raised(ToError(c.err))

\* C8: per retry the order is failed attempt, onRetry, delay, next attempt:
\* the delay of retry n begins directly after the onRetry call of retry n,
\* which follows the outcome of attempt n-1, and attempt n is issued only
\* after the delay of retry n has elapsed.
C8_NotifyDelayFetchOrder ==
    \A i \in 1..Len(trace) :
        LET tag == trace[i][1]
            n == trace[i][2]
        IN  /\ (tag = "delay" /\ opts.onRetry = "present") =>
                   (i > 1 /\ trace[i - 1] = <<"onRetry", n>>)
            /\ tag = "onRetry" =>
                   \E j \in 1..(i - 1) :
                       /\ trace[j] \in {<<"response", n - 1>>, <<"fault", n - 1>>}
                       /\ \A k \in (j + 1)..(i - 1) : trace[k] = <<"onRetry", n>>
            /\ tag = "elapsed" => (i > 1 /\ trace[i - 1] = <<"delay", n>>)
            /\ (tag = "fetch" /\ n > 0) =>
                   (i > 2 /\ trace[i - 1] = <<"elapsed", n>>
                          /\ trace[i - 2] = <<"delay", n>>)
            /\ (tag = "fetch" /\ n = 0) => i = 1

\* C8 witness: with a callback configured, a second retry has been notified,
\* waited for and followed by the third attempt.
C8_Witness ==
    /\ opts.onRetry = "present"
    /\ Len(trace) >= 3
    /\ trace[Len(trace)] = <<"fetch", 2>>
    /\ trace[Len(trace) - 2] = <<"delay", 2>>

\* C9: the delay waited after failed attempt a (zero-based) is
\* min(initialDelayMs * backoffMultiplier^a, maxDelayMs), so no delay exceeds
\* maxDelayMs; with 300 / 2 / 1200 the delays are 300, 600, 1200, 1200 and
\* the first one is initialDelayMs.
C9_DelaySchedule ==
    /\ \A i \in 1..Len(waited) :
           /\ waited[i] = Min(opts.initialDelayMs * Pow(opts.backoffMultiplier, i - 1),
                              opts.maxDelayMs)
           /\ waited[i] <= opts.maxDelayMs
    /\ ( /\ opts.initialDelayMs = 300
         /\ opts.backoffMultiplier = 2
         /\ opts.maxDelayMs = 1200 ) =>
           /\ \A i \in 1..Min(Len(waited), 4) : waited[i] = <<300, 600, 1200, 1200>>[i]
           /\ Len(waited) >= 1 => waited[1] = opts.initialDelayMs

\* C9 witness: four retries have been waited for under 300 / 2 / 1200.
C9_Witness ==
    /\ opts.initialDelayMs = 300 /\ opts.backoffMultiplier = 2 /\ opts.maxDelayMs = 1200
    /\ Len(waited) >= 4

\* C10: with maxRetries = 0 the call makes exactly one base invocation,
\* never calls onRetry and never waits: a fault is raised at once and any
\* response, retryable or not, is returned as it is.
C10_ZeroRetriesSingleAttempt ==
    opts.maxRetries = 0 =>
        /\ Len(calls) <= 1
        /\ retryLog = <<>>
        /\ waited = <<>>
        /\ pc # "delay"
        /\ Terminal => Len(calls) = 1
        /\ Len(calls) = 1 =>
               /\ Terminal
               /\ IsFault(calls[1]) => (pc = "thrown" /\ outcome.kind = "throw")
               /\ IsResponse(calls[1]) => outcome = Returned(calls[1].res)

\* C10 witness: with maxRetries = 0 and a callback configured, a call has
\* returned a response with a retryable status.
C10_Witness ==
    /\ opts.maxRetries = 0 /\ opts.onRetry = "present"
    /\ pc = "returned" /\ IsRetryable(calls[1])

\* C11: for arbitrary sequences of attempt outcomes, a finished call ends
\* with the outcome of its last base invocation: it returns a response if
\* and only if the last invocation returned that response, and raises if and
\* only if the last invocation raised.
C11_OutcomeIsLastInvocation ==
    Terminal =>
        /\ outcome.kind = "return" <=> IsResponse(Last(calls))
        /\ outcome.kind = "return" => outcome.res = Last(calls).res
        /\ outcome.kind = "throw" <=> IsFault(Last(calls))

\* The event onRetry received at position k of the trace.
EventAt(k) == retryLog[Cardinality({j \in 1..k : trace[j][1] = "onRetry"})]

InFlight(tr, i) ==
    Cardinality({j \in 1..i : tr[j][1] = "fetch"})
        - Cardinality({j \in 1..i : tr[j][1] \in {"response", "fault"}})

\* C13: within one call at most one base request is in flight at any time:
\* attempt n is issued only after attempt n-1 has completed and the delay of
\* retry n has elapsed.
C13_OneRequestInFlight ==
    /\ \A i \in 0..Len(trace) : InFlight(trace, i) \in {0, 1}
    /\ pc = "fetch" <=> InFlight(trace, Len(trace)) = 1
    /\ \A i \in 1..Len(trace) :
           (trace[i][1] = "fetch" /\ trace[i][2] > 0) =>
               LET n == trace[i][2]
               IN  /\ \E j \in 1..(i - 1) :
                          trace[j] \in {<<"response", n - 1>>, <<"fault", n - 1>>}
                   /\ i > 1 /\ trace[i - 1] = <<"elapsed", n>>
                   /\ InFlight(trace, i - 1) = 0

\* C13 witness: the third attempt of a call is in flight.
C13_Witness ==
    /\ pc = "fetch" /\ attempt = 2 /\ Len(calls) = 2

\* C14: every attempt of a call invokes the base fetch with the input and
\* init the caller passed.
C14_SameArgumentsEveryAttempt ==
    /\ pc # "idle" => request \in Requests
    /\ \A i \in 1..Len(calls) : calls[i].args = request

\* C14 witness: a call whose init carries a method has made three attempts.
C14_Witness ==
    /\ Len(calls) >= 3 /\ request.method = "delete"

\* C16: when every base fetch invocation eventually returns or raises and
\* every delay timer eventually fires, every call of the wrapper that has
\* been made eventually completes with a response or a fault.
C16_CallCompletes == (pc # "idle") ~> Terminal

\* C16 witness: a call has completed after using all its retries.
C16_Witness ==
    /\ Terminal /\ opts.maxRetries >= 2 /\ Len(calls) = opts.maxRetries + 1

\* Number of events of a trace with one of the given tags.
Count(tr, tags) == Cardinality({j \in 1..Len(tr) : tr[j][1] \in tags})

\* What holds of the frame of a call that runs alone: its counters follow
\* its own events, its lastErr is a fault it caught itself, and it ends as
\* its own last attempt decides.
SoloFrame(f) ==
    LET faults == {i \in 1..Len(f.calls) : IsFault(f.calls[i])}
        last == f.calls[Len(f.calls)]
    IN  /\ f.attempt = Count(f.trace, {"elapsed"})
        /\ Len(f.calls) = Count(f.trace, {"response", "fault"})
        /\ Count(f.trace, {"fetch"}) <= opts.maxRetries + 1
        /\ \A k \in 1..Len(f.trace) :
               f.trace[k][1] = "fetch" =>
                   f.trace[k][2] = Count(SubSeq(f.trace, 1, k - 1), {"fetch"})
        /\ Len(f.retryLog) = Count(f.trace, {"onRetry"})
        /\ Len(f.waited) = Count(f.trace, {"delay"})
        /\ f.lastErr = Undefined => faults = {}
        /\ f.lastErr # Undefined =>
               \/ f.lastErr = CallbackError
               \/ \E i \in faults : f.lastErr = ToError(f.calls[i].err)
        /\ f.pc = "returned" =>
               /\ Len(f.calls) >= 1 /\ IsResponse(last)
               /\ f.outcome = Returned(last.res)
               /\ Len(f.calls) = opts.maxRetries + 1
                      \/ last.res.status \notin opts.retryOnStatus
        /\ f.pc = "thrown" =>
               /\ f.outcome.kind = "throw"
               /\ \/ f.outcome.err = CallbackError
                  \/ /\ Len(f.calls) = opts.maxRetries + 1 /\ IsFault(last)
                     /\ f.outcome.err = ToError(last.err)

\* C15: concurrent calls of one wrapper instance are independent: under
\* every interleaving of two calls, the base invocations, onRetry events and
\* outcome of each call are those of a call that runs alone, and the attempt
\* counter and lastErr of a call are only ever those of the call itself.
C15_ConcurrentCallsIndependent ==
    SoloFrame(ActiveFrame) /\ SoloFrame(parked)

\* C15 witness: one call is in its second attempt while the other one,
\* which caught a fault, waits for its first retry.
C15_Witness ==
    /\ pc = "fetch" /\ attempt = 1 /\ lastErr = Undefined
    /\ parked.pc = "delay" /\ parked.attempt = 0 /\ parked.lastErr # Undefined

\* The step is a call fetchDevices(force) / fetchMyReservations(force).
CallStep(k, force) ==
    \/ FetchBlocked(k, force)
    \/ k = "devices" /\ DevicesStart(force)
    \/ k = "reservations" /\ ReservationsStart(force)

\* The calls made so far are an unforced call of k that found nothing
\* loading, a blocked call, and a call that passed the guard while loading
\* (a forced one).
UnforcedBlockedForced(k) ==
    invocations = << [kind |-> k, loading |-> FALSE, passed |-> TRUE],
                     [kind |-> k, loading |-> TRUE, passed |-> FALSE],
                     [kind |-> k, loading |-> TRUE, passed |-> TRUE] >>

\* C17: while a call of fetchDevices (or fetchMyReservations) is in progress
\* and loading is true, a call with force = false returns without a request
\* and without changing the list, error, loading or any call in progress;
\* a call with force = true passes the guard and goes on to its request
\* (at once when no token is needed, when the token arrives otherwise); an
\* unforced call, a blocked unforced call and a forced call have issued
\* exactly 2 requests once both calls that passed have sent their first.
C17_LoadingGuard ==
    /\ [][ /\ \A k \in Composables, force \in BOOLEAN :
                (comp[k].loading /\ CallStep(k, force)) =>
                    IF ~force
                    THEN /\ Last(invocations') = [kind |-> k, loading |-> TRUE,
                                                  passed |-> FALSE]
                         /\ UNCHANGED <<comp, fd, parked, request, pc, attempt, lastErr,
                                        outcome, calls, retryLog, waited, trace>>
                    ELSE /\ Last(invocations') = [kind |-> k, loading |-> TRUE,
                                                  passed |-> TRUE]
                         /\ fd'.kind = k /\ fd'.seq = Len(invocations')
                         /\ (k = "devices" /\ ~isAuthenticated) =>
                                (fd'.fpc = "http" /\ pc' = "fetch"
                                     /\ trace' = << <<"fetch", 0>> >>)
                         /\ isAuthenticated => fd'.fpc = "token"
           /\ (fd.fpc = "token" /\ fd'.fpc = "http" /\ fd'.seq = fd.seq) =>
                  (pc' = "fetch" /\ trace' = << <<"fetch", 0>> >>)
         ]_vars
    /\ [](\A k \in Composables :
            UnforcedBlockedForced(k) =>
                /\ Count(trace, {"fetch"}) + Count(parked.trace, {"fetch"})
                       <= 2 * (opts.maxRetries + 1)
                /\ ( /\ fd.fpc \in {"http", "json"} /\ parked.fd.fpc \in {"http", "json"}
                     /\ attempt = 0 /\ parked.attempt = 0 ) =>
                       Count(trace, {"fetch"}) + Count(parked.trace, {"fetch"}) = 2)

\* C17 witness: after an unforced, a blocked and a forced call of
\* fetchDevices, the requests of the first and of the forced call are both
\* in flight.
C17_Witness ==
    /\ UnforcedBlockedForced("devices")
    /\ fd.fpc = "http" /\ pc = "fetch" /\ attempt = 0
    /\ parked.fd.fpc = "http" /\ parked.pc = "fetch" /\ parked.attempt = 0

\* The call of frame f did not overlap a call of the same composable in
\* frame g: g made no such call, or one that had finished when f's began.
NoOverlap(f, g) ==
    g.fd.kind = f.fd.kind => (g.fd.seq < f.fd.seq /\ ~f.fd.before.loading)

\* A fetchDevices call in frame f has finished.
DevicesDone(f) == f.fd.kind = "devices" /\ f.fd.fpc = "done"

DevicesAllRetryable(f, g) ==
    /\ DevicesDone(f) /\ NoOverlap(f, g)
    /\ Len(f.calls) >= 1
    /\ \A i \in 1..Len(f.calls) :
           IsResponse(f.calls[i]) /\ f.calls[i].res.status = 500

DevicesRetryableFailure(f, g) ==
    DevicesAllRetryable(f, g) =>
        LET last == f.calls[Len(f.calls)].res
        IN  /\ 500 \in opts.retryOnStatus
            /\ Len(f.calls) = 2
            /\ Count(f.trace, {"fetch"}) = 2
            /\ comp["devices"].items = f.fd.before.items
            /\ comp["devices"].error = {[text |-> "Failed to fetch devices: ",
                                         status |-> last.status,
                                         statusText |-> "Server Error"]}
            /\ last.id = 2
            /\ ~comp["devices"].loading
            /\ Last(f.fd.log) = [fn |-> "trackDependency", success |-> FALSE,
                                 statusCode |-> {500}]

\* C18: when every attempt is answered with the retryable status 500, a
\* fetchDevices call (maxRetries 1) that has finished has issued exactly 2
\* fetch calls, has left devices as it found it, has set error to 'Failed
\* to fetch devices: 500 Server Error' (status and statusText of the last
\* response) and has recorded the dependency as unsuccessful.
C18_RetryableFailure ==
    DevicesRetryableFailure(ActiveFrame, parked) /\ DevicesRetryableFailure(parked, ActiveFrame)

\* C18 witness: a fetchDevices call that found a loaded list has finished
\* after two 500 responses.
C18_Witness ==
    /\ DevicesAllRetryable(ActiveFrame, parked)
    /\ fd.before.items # <<>>

DevicesAllThrown(f, g) ==
    /\ DevicesDone(f) /\ NoOverlap(f, g)
    /\ Len(f.calls) >= 1
    /\ \A i \in 1..Len(f.calls) : IsFault(f.calls[i]) /\ ~f.calls[i].err.isError

DevicesNonErrorFault(f, g) ==
    DevicesAllThrown(f, g) =>
        LET v == f.calls[Len(f.calls)].err
        IN  /\ Len(f.calls) = opts.maxRetries + 1
            /\ f.pc = "thrown"
            /\ f.outcome.err.isError /\ f.outcome.err # v /\ f.outcome.err.text = v.text
            /\ comp["devices"].error = {Msg(v.text)}
            /\ comp["devices"].error # {UnknownErrorMsg}
            /\ \E i \in 1..Len(f.fd.log) :
                   f.fd.log[i] = [fn |-> "trackException", message |-> Msg(v.text)]

C20_SignedOutReservations ==
    [][ \A force \in BOOLEAN :
            (~isAuthenticated /\ ReservationsStart(force)) =>
                /\ fd'.kind = "reservations" /\ fd'.fpc = "done"
                /\ pc' = "idle" /\ calls' = <<>> /\ trace' = <<>>
                /\ \A i \in 1..Len(fd'.log) : fd'.log[i].fn # "getAccessTokenSilently"
                /\ comp'["reservations"].items = <<>>
                /\ comp'["reservations"].totalCount = 0
                /\ comp'["reservations"].error =
                       {Msg("You must be signed in to view your reservations.")}
                /\ ~comp'["reservations"].loading
                /\ Last(fd'.log) = [fn |-> "trackDependency", success |-> FALSE,
                                    statusCode |-> {}]
      ]_vars

\* C20 witness: a fetchMyReservations call that found a loaded list was
\* made while signed out and has finished.
C20_Witness ==
    /\ fd.kind = "reservations" /\ fd.fpc = "done" /\ calls = <<>>
    /\ fd.before.items # <<>> /\ fd.before.totalCount > 0
    /\ comp["reservations"].error = {SignInMsg}

\* A string of white space only (the empty string included).
AllSpaces(str) == \A j \in 1..Len(str) : str[j] = " "

\* The call may not be made: the user is signed out, or the reservation id
\* to cancel is blank.
Refused(k, signedIn, input) ==
    k \in {"add", "cancel"} /\ (~signedIn \/ (k = "cancel" /\ AllSpaces(input)))

\* C21: addReservation and cancelReservation issue an HTTP request only
\* when isAuthenticated was true at the start of the call and, for
\* cancelReservation, the reservation id is not blank; otherwise the call
\* ends at once without a request and without asking for a token, returns
\* null (false for cancelReservation), leaves success false and sets error.
C21_RefusedWithoutRequest ==
    /\ [](\A i \in 1..MaxMutationCalls :
            LET c == ops.call[i]
            IN  /\ (c.kind \in {"add", "cancel"} /\ c.requests >= 1) =>
                       (c.signedIn /\ (c.kind = "cancel" => ~AllSpaces(c.input)))
                /\ Refused(c.kind, c.signedIn, c.input) =>
                       /\ c.mpc = "done" /\ c.requests = 0 /\ ~c.ok
                       /\ c.result = (IF c.kind = "add" THEN "null" ELSE "false")
                       /\ \A j \in 1..Len(c.log) : c.log[j].fn # "getAccessTokenSilently")
    /\ [][ \A i \in 1..MaxMutationCalls, k \in {"add", "cancel"} :
             \A input \in Inputs(k) :
               (MutationStart(i, k, input) /\ Refused(k, isAuthenticated, input)) =>
                   /\ ~ops'.refs[k].success
                   /\ ~ops'.refs[k].loading
                   /\ ops'.refs[k].error =
                          {IF ~isAuthenticated THEN SignInRequiredMsg(k)
                           ELSE MutationMsg("reservationId is required.", 0, <<>>)}
         ]_vars

\* C21 witness: an addReservation call made while signed out has returned
\* null and a cancelReservation call made with a blank id while signed in
\* has returned false.
C21_Witness ==
    \E i, j \in 1..MaxMutationCalls :
        /\ ops.call[i].kind = "add" /\ ~ops.call[i].signedIn
        /\ ops.call[i].result = "null" /\ ops.call[i].requests = 0
        /\ ops.call[j].kind = "cancel" /\ ops.call[j].signedIn
        /\ ops.call[j].input = <<" ", " ">>
        /\ ops.call[j].result = "false" /\ ops.call[j].requests = 0

\* C25: addReservation (POST), cancelReservation (DELETE) and upsertDevices
\* (POST) do not go through the retry wrapper: a call issues at most one
\* HTTP request, also when the response has a retryable status or the
\* request faults.
C25_MutationsNotRetried ==
    \A i \in 1..MaxMutationCalls :
        LET c == ops.call[i]
        IN  /\ c.requests <= 1
            /\ c.mpc \in {"http", "json"} => c.requests = 1
            /\ c.statusCode # {} => c.requests = 1
            /\ c.requests = 1 =>
                   c.method = (IF c.kind = "cancel" THEN "DELETE" ELSE "POST")

\* C25 witness: one call has ended on a 500 response and another one on a
\* fault of its request, each after one request.
C25_Witness ==
    \E i, j \in 1..MaxMutationCalls :
        /\ ops.call[i].mpc = "done" /\ ops.call[i].statusCode = {500}
        /\ 500 \in FetchOptions.retryOnStatus /\ ops.call[i].requests = 1
        /\ ops.call[j].mpc = "done" /\ ops.call[j].statusCode = {}
        /\ ops.call[j].requests = 1 /\ ops.call[j].kind = "upsert"

\* C30: in useAddReservations, useCancelReservations and useUpsertDevices,
\* in every reachable state, overlapping calls included, success true
\* implies error null.
C30_SuccessImpliesNoError ==
    \A k \in Mutations : ops.refs[k].success => ops.refs[k].error = {}

\* The entries of a call's log that record a dependency.
Dependencies(log) == SelectSeq(log, LAMBDA e : e.fn = "trackDependency")

\* A step in which the call of the active frame finishes.
Finishes == fd.fpc # "done" /\ fd'.fpc = "done"

\* C24: every call of fetchDevices or fetchMyReservations that passed the
\* guard, however it ends, sets loading to false and calls trackDependency
\* exactly once, as its last act, when it finishes; the success flag is true
\* only if the response was ok and the data was stored, and the status code
\* is that of the final response the call received from fetchWithRetry,
\* undefined when it received none.
C24_FinallyAlwaysRuns ==
    [][ /\ (fd.fpc # "done" /\ fd.kind \in Composables) => Dependencies(fd.log) = <<>>
        /\ Finishes =>
             LET k   == fd'.kind
                 dep == Last(fd'.log)
             IN  /\ k \in Composables
                 /\ ~comp'[k].loading
                 /\ Len(Dependencies(fd'.log)) = 1
                 /\ dep.fn = "trackDependency"
                 /\ dep.success =>
                        /\ outcome.kind = "return" /\ IsOk(outcome.res.status)
                        /\ outcome.res = Last(calls).res
                        /\ \/ \E body \in DeviceBodies : DevicesJson(body)
                           \/ \E body \in ReservationBodies : ReservationsJson(body)
                 /\ dep.statusCode = IF outcome.kind = "return"
                                     THEN {Last(calls).res.status}
                                     ELSE {}
      ]_vars

\* C24 witness: one call has finished after fetchWithRetry threw, with the
\* dependency recorded as failed and without a status code, and another
\* after a 200 response whose data was stored, recorded as successful with
\* status 200; loading is false.
C24_Witness ==
    /\ fd.fpc = "done" /\ outcome.kind = "throw"
    /\ Last(fd.log) = [fn |-> "trackDependency", success |-> FALSE, statusCode |-> {}]
    /\ parked.fd.fpc = "done" /\ parked.outcome.kind = "return"
    /\ Last(parked.fd.log) = [fn |-> "trackDependency", success |-> TRUE,
                              statusCode |-> {200}]
    /\ ~comp[fd.kind].loading /\ ~comp[parked.fd.kind].loading

\* A call in frame f has passed the guard and has not finished.
InProgress(f) == f.fd.kind \in Composables /\ f.fd.fpc # "done"

\* C28: loading is true in every state in which a call of fetchDevices (or
\* fetchMyReservations) has passed the guard and has not finished, calls
\* that overlap through force = true included.
C28_LoadingWhileInFlight ==
    \A f \in {ActiveFrame, parked} : InProgress(f) => comp[f.fd.kind].loading

\* C26: for every maxRetries >= 0 and every sequence of responses, faults
\* and callback behaviours, one call of the wrapper invokes the base fetch
\* at least once and at most maxRetries + 1 times, the loop counter never
\* passes maxRetries, and the call never raises the fallback error 'Fetch
\* failed after retries'.
C26_AttemptsBounded ==
    /\ opts.maxRetries >= 0
    /\ Len(calls) <= opts.maxRetries + 1
    /\ attempt <= opts.maxRetries
    /\ Terminal => Len(calls) >= 1
    /\ outcome.err # FallbackError
    /\ outcome.err.text # FallbackError.text

\* C26 witness: with maxRetries >= 3 a call has ended after maxRetries + 1
\* base invocations, some answered with a retryable status and some with a
\* fault.
C26_Witness ==
    /\ opts.maxRetries >= 3
    /\ Terminal
    /\ Len(calls) = opts.maxRetries + 1
    /\ \E i, j \in 1..Len(calls) : IsFault(calls[i]) /\ IsResponse(calls[j])

\* C27: the delayMs of every onRetry event is the duration of the wait that
\* follows it, for retries after a fault and after a retryable status alike,
\* and every wait is announced when a callback is configured; with
\* backoffMultiplier >= 1 the waits never decrease, and none exceeds
\* maxDelayMs.
C27_ReportedDelayIsWaited ==
    /\ \A i \in 1..Len(retryLog) :
           LET ev == retryLog[i]
           IN  /\ ev.attempt \in 1..Len(waited) => waited[ev.attempt] = ev.delayMs
               /\ ev.attempt <= Len(waited) + 1
               /\ ev.delayMs <= opts.maxDelayMs
    /\ opts.onRetry = "present" =>
           \A n \in 1..Len(waited) :
               \E i \in 1..Len(retryLog) :
                   retryLog[i].attempt = n /\ retryLog[i].delayMs = waited[n]
    /\ \A n \in 1..Len(waited) : waited[n] <= opts.maxDelayMs
    /\ opts.backoffMultiplier >= 1 =>
           \A m, n \in 1..Len(waited) : m <= n => waited[m] <= waited[n]

\* C27 witness: a retry after a retryable status and a retry after a fault
\* have both been announced and waited for, the second wait longer than the
\* first, and a later wait is capped at maxDelayMs.
C27_Witness ==
    /\ Len(waited) >= 3 /\ Len(retryLog) >= 3
    /\ \E i, j \in 1..Len(retryLog) :
           /\ retryLog[i].status # {} /\ retryLog[j].errorMessage # {}
           /\ retryLog[i].delayMs = waited[retryLog[i].attempt]
           /\ retryLog[j].delayMs = waited[retryLog[j].attempt]
    /\ waited[1] < waited[2]
    /\ waited[3] = opts.maxDelayMs

\* The runs of the view's handlers.
Tasks == 1..MaxPageTasks

ClickTask(t) == page.task[t].kind \in {"reserve", "cancel"}
WatchTask(t) == page.task[t].kind = "watch"

\* The refresh: fetchDevices(true), then fetchMyReservations(true).
RefreshDevices == Called("devices", TRUE)
RefreshReservations == Called("reservations", TRUE)

\* In this step run t goes on from the fetchDevices(true) it awaited, which
\* has finished.
AfterDevices(t) ==
    /\ page.task[t].vpc = "devices" /\ page'.task[t].vpc # "devices"
    /\ page.task[t].call.kind = "devices" /\ page.task[t].call.fpc = "done"

\* C22: onReserve and onCancel refresh only after a success: when
\* addReservation / cancelReservation gave a truthy result the handler calls
\* fetchDevices(true) and, once that call has finished, fetchMyReservations(
\* true), and nothing else; when the result is falsy it calls neither.
C22_RefreshOnlyAfterSuccess ==
    /\ [](\A t \in Tasks :
            ClickTask(t) =>
                LET task   == page.task[t]
                    first  == Called(MutationOf(task.kind), FALSE)
                    result == ops.call[task.slot].result
                IN  /\ task.vpc = "mutation" => task.log = <<first>>
                    /\ task.vpc = "devices" =>
                           Truthy(result) /\ task.log = <<first, RefreshDevices>>
                    /\ task.vpc = "reservations" =>
                           /\ Truthy(result)
                           /\ task.log = <<first, RefreshDevices, RefreshReservations>>
                    /\ task.vpc = "done" =>
                           task.log = IF Truthy(result)
                                      THEN <<first, RefreshDevices, RefreshReservations>>
                                      ELSE <<first>>)
    /\ [][\A t \in Tasks :
            /\ (ClickTask(t) /\ page'.task[t].vpc = "reservations"
                    /\ page.task[t].vpc # "reservations") => AfterDevices(t)
            /\ (ClickTask(t) /\ page'.task[t].vpc = "devices"
                    /\ page.task[t].vpc # "devices") =>
                   (ops.call[page.task[t].slot].mpc = "done"
                        /\ Truthy(ops.call[page.task[t].slot].result))
         ]_vars

\* C22 witness: a run of onReserve whose addReservation gave the created
\* reservation has refreshed both lists and returned, and a run of onCancel
\* whose cancelReservation gave false has returned without a refresh.
C22_Witness ==
    \E t, u \in Tasks :
        /\ page.task[t].kind = "reserve" /\ page.task[t].vpc = "done"
        /\ ops.call[page.task[t].slot].result = "dto"
        /\ page.task[t].log = <<Called("add", FALSE), RefreshDevices, RefreshReservations>>
        /\ page.task[u].kind = "cancel" /\ page.task[u].vpc = "done"
        /\ ops.call[page.task[u].slot].result = "false"
        /\ page.task[u].log = <<Called("cancel", FALSE)>>

\* What the watcher does after fetchDevices(true) when it takes
\* isAuthenticated to be auth.
WatcherLog(auth) ==
    IF auth THEN <<RefreshDevices, RefreshReservations>>
    ELSE <<RefreshDevices, Called("clear", FALSE)>>

\* C23 as stated: every change of isAuthenticated triggers fetchDevices(
\* true); after a change to logged-out the handler sets reservations to []
\* and does not call fetchMyReservations, after a change to logged-in it
\* calls fetchMyReservations(true) once fetchDevices(true) has finished.
C23_WatcherFollowsChange ==
    \A t \in Tasks :
        WatchTask(t) =>
            LET task == page.task[t]
            IN  /\ task.log[1] = RefreshDevices
                /\ task.vpc = "devices" => task.log = <<RefreshDevices>>
                /\ task.vpc \in {"reservations", "done"} =>
                       task.log = WatcherLog(task.changedTo)

\* C23 amended: every change of isAuthenticated triggers fetchDevices(true);
\* once that call has finished the handler reads isAuthenticated again and
\* acts on the value it has then: if false it sets reservations to [] and
\* does not call fetchMyReservations, if true it calls
\* fetchMyReservations(true).
C23_WatcherFollowsCurrentValue ==
    /\ [](\A t \in Tasks :
            WatchTask(t) =>
                LET task == page.task[t]
                IN  /\ task.log[1] = RefreshDevices
                    /\ task.vpc = "devices" =>
                           (task.log = <<RefreshDevices>> /\ task.seen = {})
                    /\ task.vpc \in {"reservations", "done"} =>
                           \E auth \in task.seen : task.log = WatcherLog(auth))
    /\ [][ /\ isAuthenticated' # isAuthenticated =>
                \E t \in Tasks :
                    /\ page.task[t].kind = "none"
                    /\ page'.task[t].kind = "watch"
                    /\ page'.task[t].changedTo = isAuthenticated'
                    /\ page'.task[t].log = <<RefreshDevices>>
           /\ \A t \in Tasks :
                (WatchTask(t) /\ page.task[t].vpc = "devices"
                     /\ page'.task[t].vpc # "devices") =>
                    /\ AfterDevices(t)
                    /\ page'.task[t].seen = {isAuthenticated}
                    /\ ~isAuthenticated => comp'["reservations"].items = <<>>
         ]_vars

\* C23 witness: isAuthenticated changed to false and back to true before the
\* fetchDevices(true) of the first change had finished; the handler of the
\* change to logged-out has then read true, called fetchMyReservations(true)
\* and left the list alone, as has the handler of the change to logged-in.
C23_Witness ==
    \E t, u \in Tasks :
        /\ WatchTask(t) /\ ~page.task[t].changedTo /\ page.task[t].seen = {TRUE}
        /\ page.task[t].vpc = "done"
        /\ page.task[t].log = WatcherLog(TRUE)
        /\ WatchTask(u) /\ page.task[u].changedTo /\ page.task[u].seen = {TRUE}
        /\ page.task[u].vpc = "done"
        /\ page.task[u].log = WatcherLog(TRUE)

\* Nothing is in flight: every handler run has returned and every call has
\* finished.
PageQuiet ==
    /\ page.mounted
    /\ \A t \in Tasks : page.task[t].vpc \in {"none", "done"}
    /\ \A t \in Tasks : page.task[t].call.fpc \in {"none", "done"}
    /\ \A i \in 1..MaxMutationCalls : ops.call[i].mpc \in {"none", "done"}

\* C29: once isAuthenticated has changed to false and everything in flight
\* has completed, reservations is empty.
C29_SignedOutListEmpty ==
    ( /\ ~isAuthenticated
      /\ \E t \in Tasks : WatchTask(t)
      /\ PageQuiet ) => comp["reservations"].items = <<>>
====
